---------------------------- MODULE Spec2Model ----------------------------
(***************************************************************************)
(* A model of the YouTube audio Telegram bot (src/bot.py, src/downloader.py)*)
(* as a state machine.                                                      *)
(*                                                                          *)
(* A playlist entry's title is modelled as run-length encoded text: a      *)
(* sequence of runs [c, n], n times the character c, and a character as a   *)
(* token naming its class: "a" (plain ASCII), "\"" (a character JSON        *)
(* escapes with a backslash), "U+044F" (a two-byte UTF-8 character) and     *)
(* "U+65E5" (a three-byte UTF-8 character).  Video ids are strings.         *)
(***************************************************************************)
EXTENDS Integers, Sequences, FiniteSets, TLC

VARIABLES
    fn_pc,          \* position of the function under test: "off", "call", "done"
    fn_args,        \* its arguments
    fn_ret,         \* its return value
    dl,             \* one download_audio call: the closure state of progress_hook
    playlist_cache, \* bot.py: playlist_cache, user_id -> session
    files,          \* the downloads directory: path -> size in bytes
    th              \* the worker threads of the bot, each running one handler

fnVars  == <<fn_pc, fn_args, fn_ret>>
botVars == <<playlist_cache, files, th>>
vars    == <<fn_pc, fn_args, fn_ret, dl, playlist_cache, files, th>>

Min(a, b) == IF a <= b THEN a ELSE b
Max(a, b) == IF a >= b THEN a ELSE b

RECURSIVE SumSeq(_)
SumSeq(s) == IF s = <<>> THEN 0 ELSE Head(s) + SumSeq(Tail(s))

(***************************************************************************)
(* Bounds of the model.                                                    *)
(***************************************************************************)
MaxEntries == 3     \* longest entry list given to the page fitter
MaxUrlLen  == 420   \* largest max_url_len given to the page fitter

(***************************************************************************)
(* format_duration, build_track_data and the encoded URL                   *)
(***************************************************************************)
Digit(d) == CASE d = 0 -> "0" [] d = 1 -> "1" [] d = 2 -> "2" [] d = 3 -> "3"
              [] d = 4 -> "4" [] d = 5 -> "5" [] d = 6 -> "6" [] d = 7 -> "7"
              [] d = 8 -> "8" [] d = 9 -> "9"

RECURSIVE Decimal(_)
\* str(n) for n >= 0
Decimal(n) == IF n < 10 THEN <<Digit(n)>> ELSE Decimal(n \div 10) \o <<Digit(n % 10)>>

\* bot.py format_duration: a falsy duration (None or 0) is modelled as 0
format_duration(seconds) ==
    IF seconds = 0 THEN <<"-", "-", ":", "-", "-">>
    ELSE LET minutes == seconds \div 60
             secs    == seconds % 60
         IN  Decimal(minutes) \o <<":">> \o <<Digit(secs \div 10), Digit(secs % 10)>>

ThumbPrefix == "https://i.ytimg.com/vi/"
ThumbSuffix == "/default.jpg"

\* bot.py build_track_data; 'thumb' is kept as its three concatenated parts
build_track_data(entry) ==
    [id       |-> entry.id,
     title    |-> entry.title,
     duration |-> format_duration(entry.duration),
     thumb    |-> <<ThumbPrefix, entry.id, ThumbSuffix>>]

\* Bytes of one character of a string value after json.dumps(ensure_ascii=False)
\* and .encode(): an escaped character is a backslash and the character.
JsonCharBytes(c) ==
    CASE c = "\""     -> 2
      [] c = "U+044F" -> 2
      [] c = "U+65E5" -> 3
      [] c = "U+1F600" -> 4
      [] OTHER        -> 1

JsonTextBytes(s) == SumSeq([k \in 1..Len(s) |-> JsonCharBytes(s[k])])

\* the same for run-length encoded text
JsonRunsBytes(s) == SumSeq([k \in 1..Len(s) |-> s[k].n * JsonCharBytes(s[k].c)])

\* {"id": "..", "title": "..", "duration": "..", "thumb": ".."}
JsonTrackBytes(t) ==
      Len("{\"id\": \"") + Len(t.id)
    + Len("\", \"title\": \"") + JsonRunsBytes(t.title)
    + Len("\", \"duration\": \"") + JsonTextBytes(t.duration)
    + Len("\", \"thumb\": \"") + Len(t.thumb[1]) + Len(t.thumb[2]) + Len(t.thumb[3])
    + Len("\"}")

\* json.dumps({'tracks': tracks_data}).encode(): items are joined by ", "
JsonBytes(tracks_data) ==
      Len("{\"tracks\": [")
    + SumSeq([k \in 1..Len(tracks_data) |-> JsonTrackBytes(tracks_data[k])])
    + (IF Len(tracks_data) > 1 THEN Len(", ") * (Len(tracks_data) - 1) ELSE 0)
    + Len("]}")

\* base64.urlsafe_b64encode: four characters for every three bytes, padded
B64Len(nbytes) == 4 * ((nbytes + 2) \div 3)

\* entries[a:b] for 0 <= a, as Python slices: clamped to the list, empty if b <= a
PySlice(s, a, b) ==
    LET hi == Min(b, Len(s))
    IN  IF hi <= a THEN <<>> ELSE [k \in 1..(hi - a) |-> s[a + k]]

\* len(f'{base_url}?data={data_b64}') for the given page of entries
EncodedUrlLen(page_entries, base_url) ==
    LET tracks_data == [k \in 1..Len(page_entries) |-> build_track_data(page_entries[k])]
    IN  Len(base_url) + Len("?data=") + B64Len(JsonBytes(tracks_data))

\* calc_max_tracks_for_url.url_len
url_len(entries, base_url, count) == EncodedUrlLen(PySlice(entries, 0, count), base_url)

RECURSIVE BinarySearch(_, _, _, _, _, _)
\* the while loop of calc_max_tracks_for_url
BinarySearch(entries, base_url, max_url_len, left, right, result) ==
    IF left <= right
    THEN LET mid == (left + right) \div 2
         IN  IF url_len(entries, base_url, mid) <= max_url_len
             THEN BinarySearch(entries, base_url, max_url_len, mid + 1, right, mid)
             ELSE BinarySearch(entries, base_url, max_url_len, left, mid - 1, result)
    ELSE result

RECURSIVE BinarySearchStrict(_, _, _, _, _, _)
\* the loop with < in place of <=
BinarySearchStrict(entries, base_url, max_url_len, left, right, result) ==
    IF left <= right
    THEN LET mid == (left + right) \div 2
         IN  IF url_len(entries, base_url, mid) < max_url_len
             THEN BinarySearchStrict(entries, base_url, max_url_len, mid + 1, right, mid)
             ELSE BinarySearchStrict(entries, base_url, max_url_len, left, mid - 1, result)
    ELSE result

RECURSIVE BinarySearchReversed(_, _, _, _, _, _)
\* the loop with the operands of the comparison exchanged
BinarySearchReversed(entries, base_url, max_url_len, left, right, result) ==
    IF left <= right
    THEN LET mid == (left + right) \div 2
         IN  IF max_url_len <= url_len(entries, base_url, mid)
             THEN BinarySearchReversed(entries, base_url, max_url_len, mid + 1, right, mid)
             ELSE BinarySearchReversed(entries, base_url, max_url_len, left, mid - 1, result)
    ELSE result

calc_max_tracks_reversed(entries, base_url, max_url_len) ==
    BinarySearchReversed(entries, base_url, max_url_len, 1, Len(entries), 0)

calc_max_tracks_strict(entries, base_url, max_url_len) ==
    BinarySearchStrict(entries, base_url, max_url_len, 1, Len(entries), 0)

\* the search with result starting at 1
calc_max_tracks_from1(entries, base_url, max_url_len) ==
    BinarySearch(entries, base_url, max_url_len, 1, Len(entries), 1)

calc_max_tracks_for_url(entries, base_url, max_url_len) ==
    BinarySearch(entries, base_url, max_url_len, 1, Len(entries), 0)

(***************************************************************************)
(* Inputs of the page fitter                                               *)
(***************************************************************************)
Run(c, n) == [c |-> c, n |-> n]

SampleEntries ==
    { [id |-> "dQw4w9WgXcQ", title |-> <<Run("a", 2)>>, duration |-> 212],
      [id |-> "dQw4w9WgXcQ", title |-> <<Run("a", 1), Run("\"", 1), Run("U+044F", 1)>>,
       duration |-> 0],
      [id |-> "9bZkp7q19f0", title |-> <<>>, duration |-> 6000],
      [id |-> "x", title |-> <<Run("U+65E5", 1), Run("a", 4)>>, duration |-> 59] }

SeqsUpTo(S, n) == UNION { [1..k -> S] : k \in 0..n }

SampleBaseUrls == { "", "https://example.org/app" }

Off == [off |-> TRUE]

dlOff == Off

BotOff ==
    /\ playlist_cache = <<>>
    /\ files = <<>>
    /\ th = <<>>

(***************************************************************************)
(* SpecFit: calc_max_tracks_for_url applied to every sampled input         *)
(***************************************************************************)
FitInit ==
    /\ fn_pc = "call"
    /\ fn_args \in [entries     : SeqsUpTo(SampleEntries, MaxEntries) \ {<<>>},
                    base_url    : SampleBaseUrls,
                    max_url_len : 0..MaxUrlLen]
    /\ fn_ret = Off
    /\ dl = dlOff
    /\ BotOff

CallFit ==
    /\ fn_pc = "call"
    /\ fn_ret' = calc_max_tracks_for_url(fn_args.entries, fn_args.base_url,
                                         fn_args.max_url_len)
    /\ fn_pc' = "done"
    /\ UNCHANGED <<fn_args, dl, botVars>>

FitNext == CallFit

SpecFit == FitInit /\ [][FitNext]_vars

\* C1: for a non-empty entry list, whenever the URL of the first entry alone
\* fits max_url_len, the page fitter returns the largest n in 1..len(entries)
\* whose encoded URL for entries[0:n] has length <= max_url_len.
C1_FitIsMaximal ==
    fn_pc = "done" =>
        LET es  == fn_args.entries
            fit(n) == url_len(es, fn_args.base_url, n) <= fn_args.max_url_len
        IN  fit(1) =>
              /\ fn_ret \in 1..Len(es)
              /\ fit(fn_ret)
              /\ \A m \in 1..Len(es) : fit(m) => m <= fn_ret

\* a call where some but not all entries fit, the limit met exactly
C1_Witness ==
    /\ fn_pc = "done"
    /\ Len(fn_args.entries) = 3
    /\ fn_ret = 2
    /\ url_len(fn_args.entries, fn_args.base_url, 2) = fn_args.max_url_len

(***************************************************************************)
(* SpecMono: calc_max_tracks_for_url called again and again for one entry  *)
(* list and base URL while the limit grows                                 *)
(***************************************************************************)
LimitSteps == {1, 100}

MonoInit ==
    /\ fn_pc = "first"
    /\ fn_args \in [entries     : SeqsUpTo(SampleEntries, MaxEntries) \ {<<>>},
                    base_url    : SampleBaseUrls,
                    max_url_len : {0}]
    /\ fn_ret = Off
    /\ dl = dlOff
    /\ BotOff

\* the first call; there is no earlier result to compare it with
CallFirst ==
    /\ fn_pc = "first"
    /\ LET r == calc_max_tracks_for_url(fn_args.entries, fn_args.base_url,
                                        fn_args.max_url_len)
       IN  fn_ret' = [before_len |-> fn_args.max_url_len, before |-> r, now |-> r]
    /\ fn_pc' = "again"
    /\ UNCHANGED <<fn_args, dl, botVars>>

\* a further call with a limit that is larger by d; the result of the call
\* before it is kept in 'before'
CallAgain ==
    /\ fn_pc = "again"
    /\ \E d \in LimitSteps :
          /\ fn_args.max_url_len + d <= MaxUrlLen
          /\ fn_args' = [fn_args EXCEPT !.max_url_len = @ + d]
    /\ fn_ret' = [before_len |-> fn_args.max_url_len,
                  before     |-> fn_ret.now,
                  now        |-> calc_max_tracks_for_url(fn_args'.entries, fn_args'.base_url,
                                                         fn_args'.max_url_len)]
    /\ UNCHANGED <<fn_pc, dl, botVars>>

MonoNext == CallFirst \/ CallAgain

SpecMono == MonoInit /\ [][MonoNext]_vars

\* C12: for a fixed entry list and base URL the page fitter is monotone in
\* max_url_len: the result for a limit is never below the result for a
\* smaller limit (checked for every limit and the limits 1 and 100 above it,
\* which chain to every pair of limits).
C12_FitMonotone ==
    fn_pc = "again" =>
        /\ fn_ret.before_len <= fn_args.max_url_len
        /\ fn_ret.before <= fn_ret.now

\* raising the limit by one let one more entry fit
C12_Witness ==
    /\ fn_pc = "again"
    /\ fn_args.max_url_len = fn_ret.before_len + 1
    /\ fn_ret.before = 1
    /\ fn_ret.now = 2

(***************************************************************************)
(* build_playlist_keyboard                                                 *)
(***************************************************************************)
WEBAPP_URL == "https://example.org/app"

\* the navigation buttons, given whether "back" is offered
NavButtons(entries, start_idx, page_size, end_idx, back) ==
      (IF back
       THEN << [text |-> "back", callback_data |-> <<"pl", start_idx - page_size, page_size>>] >>
       ELSE <<>>)
   \o (IF end_idx < Len(entries)
       THEN << [text |-> "forward", callback_data |-> <<"pl", end_idx, page_size>>] >>
       ELSE <<>>)

\* the keyboard and the returned tuple (keyboard, start_idx + 1, end_idx)
Keyboard(entries, start_idx, page_size, back) ==
    LET end_idx      == Min(start_idx + page_size, Len(entries))
        page_entries == PySlice(entries, start_idx, end_idx)
        tracks_data  == [k \in 1..Len(page_entries) |-> build_track_data(page_entries[k])]
    IN  [tracks  |-> tracks_data,
         url_len |-> EncodedUrlLen(page_entries, WEBAPP_URL),
         label   |-> <<start_idx + 1, end_idx>>,
         nav     |-> NavButtons(entries, start_idx, page_size, end_idx, back),
         start   |-> start_idx + 1,
         end     |-> end_idx]

\* "back" offered on the first page too
build_playlist_keyboard_back0(entries, start_idx, page_size, total) ==
    Keyboard(entries, start_idx, page_size, start_idx >= 0)

build_playlist_keyboard(entries, start_idx, page_size, total) ==
    Keyboard(entries, start_idx, page_size, start_idx > 0)

(***************************************************************************)
(* SpecKeyboard: build_playlist_keyboard applied to every sampled input    *)
(***************************************************************************)
KeyboardInit ==
    /\ fn_pc = "call"
    /\ fn_args \in [entries   : SeqsUpTo(SampleEntries, MaxEntries) \ {<<>>},
                    start_idx : 0..(MaxEntries + 1),
                    page_size : 1..(MaxEntries + 1)]
    /\ fn_ret = Off
    /\ dl = dlOff
    /\ BotOff

CallKeyboard ==
    /\ fn_pc = "call"
    /\ fn_ret' = build_playlist_keyboard(fn_args.entries, fn_args.start_idx,
                                         fn_args.page_size, Len(fn_args.entries))
    /\ fn_pc' = "done"
    /\ UNCHANGED <<fn_args, dl, botVars>>

KeyboardNext == CallKeyboard

SpecKeyboard == KeyboardInit /\ [][KeyboardNext]_vars

HasButton(kb, text) == \E k \in 1..Len(kb.nav) : kb.nav[k].text = text

\* C9: the keyboard for start_idx and page_size shows exactly the entries
\* [start_idx, min(start_idx + page_size, len(entries))), offers "back" only
\* if start_idx > 0 and "forward" only if the page's end index is below
\* len(entries).
C9_KeyboardPage ==
    fn_pc = "done" =>
        LET es    == fn_args.entries
            s     == fn_args.start_idx
            e     == IF s + fn_args.page_size < Len(es) THEN s + fn_args.page_size ELSE Len(es)
            shown == { k \in 0..(Len(es) - 1) : s <= k /\ k < e }
        IN  /\ Len(fn_ret.tracks) = Cardinality(shown)
            /\ \A k \in shown : fn_ret.tracks[k - s + 1] = build_track_data(es[k + 1])
            /\ fn_ret.end = e
            /\ HasButton(fn_ret, "back") => s > 0
            /\ HasButton(fn_ret, "forward") => e < Len(es)

\* a middle page: entries before and after it, both buttons offered
C9_Witness ==
    /\ fn_pc = "done"
    /\ fn_args.start_idx = 1
    /\ fn_args.page_size = 1
    /\ Len(fn_args.entries) = 3
    /\ Len(fn_ret.tracks) = 1
    /\ HasButton(fn_ret, "back")
    /\ HasButton(fn_ret, "forward")

(***************************************************************************)
(* download_audio: the progress hook                                       *)
(***************************************************************************)
MaxUpdates == 3     \* updates delivered to the hook during one download

\* what yt-dlp hands to the hook; an absent or None size is modelled as 0
Updates ==
         [status : {"downloading"},
          total_bytes : {0, 200}, total_bytes_estimate : {0, 50},
          downloaded_bytes : {4, 18, 20, 38}, filename : {"-"}]
    \cup [status : {"finished", "error"},
          total_bytes : {0}, total_bytes_estimate : {0},
          downloaded_bytes : {0}, filename : {"downloads/a.m4a"}]

\* d.get('total_bytes') or d.get('total_bytes_estimate') or 0
TotalOf(d) == IF d.total_bytes # 0 THEN d.total_bytes ELSE d.total_bytes_estimate

\* int(downloaded * 100 / total)
PercentOf(d) == (d.downloaded_bytes * 100) \div TotalOf(d)

\* One call of the hook on the closure state c; with keep = FALSE the
\* assignment to last_percent is left out.
Hook(c, d, keep) ==
    IF d.status = "downloading" /\ c.progress_callback
    THEN IF TotalOf(d) > 0 /\ PercentOf(d) >= c.last_percent + 10
         THEN [c EXCEPT !.last_percent = IF keep THEN PercentOf(d) ELSE @,
                        !.calls = Append(@, PercentOf(d)),
                        !.log = Append(@, [d |-> d, called |-> TRUE])]
         ELSE [c EXCEPT !.log = Append(@, [d |-> d, called |-> FALSE])]
    ELSE IF d.status = "finished"
         THEN [c EXCEPT !.downloaded_file = d.filename,
                        !.log = Append(@, [d |-> d, called |-> FALSE])]
         ELSE [c EXCEPT !.log = Append(@, [d |-> d, called |-> FALSE])]

progress_hook_stale(c, d) == Hook(c, d, FALSE)

\* the hook with the threshold last_percent + 9
progress_hook_near(c, d) ==
    IF /\ d.status = "downloading" /\ c.progress_callback /\ TotalOf(d) > 0
       /\ PercentOf(d) >= c.last_percent + 9
    THEN [c EXCEPT !.last_percent = PercentOf(d),
                   !.calls = Append(@, PercentOf(d)),
                   !.log = Append(@, [d |-> d, called |-> TRUE])]
    ELSE Hook(c, d, TRUE)

progress_hook(c, d) == Hook(c, d, TRUE)

(***************************************************************************)
(* SpecProgress: one download, the hook called on any sequence of updates  *)
(***************************************************************************)
ProgressInit ==
    /\ fn_pc = "off"
    /\ fn_args = Off
    /\ fn_ret = Off
    /\ dl \in [progress_callback : BOOLEAN, last_percent : {-1},
               downloaded_file : {"None"}, calls : {<<>>}, log : {<<>>}]
    /\ BotOff

ProgressUpdate ==
    /\ Len(dl.log) < MaxUpdates
    /\ \E d \in Updates : dl' = progress_hook(dl, d)
    /\ UNCHANGED <<fnVars, botVars>>

ProgressNext == ProgressUpdate

SpecProgress == ProgressInit /\ [][ProgressNext]_vars

\* the percents reported before update k of the log
ReportedBefore(log, k) ==
    { PercentOf(log[j].d) : j \in { j \in 1..(k - 1) : log[j].called } }

\* C10: during one download the callback is invoked for an update only when
\* the total size is known (> 0) and the update's percent is at least 10
\* above every percent reported before it; so consecutive reported percents
\* differ by at least 10, and no callback fires when the total is unknown.
C10_ProgressThrottle ==
    dl # Off =>
        /\ \A k \in 1..Len(dl.log) :
              dl.log[k].called =>
                 /\ dl.log[k].d.status = "downloading"
                 /\ TotalOf(dl.log[k].d) > 0
                 /\ \A p \in ReportedBefore(dl.log, k) : PercentOf(dl.log[k].d) >= p + 10
        /\ \A k \in 1..(Len(dl.calls) - 1) : dl.calls[k + 1] - dl.calls[k] >= 10
        /\ Len(dl.calls) = Cardinality({ k \in 1..Len(dl.log) : dl.log[k].called })

\* two reports exactly 10 apart, and an update of unknown total not reported
C10_Witness ==
    /\ dl # Off
    /\ Len(dl.calls) = 2
    /\ dl.calls[2] = dl.calls[1] + 10
    /\ \E k \in 1..Len(dl.log) : TotalOf(dl.log[k].d) = 0 /\ dl.log[k].d.status = "downloading"

(***************************************************************************)
(* SpecExample: one download whose downloaded bytes never decrease, the    *)
(* updates drawn from the byte counts of the documented example            *)
(***************************************************************************)
ExampleLen == 6     \* updates delivered to the hook during one download

ExamplePercents == <<3, 7, 11, 15, 22, 31>>

\* updates against a total of 100 bytes, known or estimated
ExampleUpdates ==
    [status : {"downloading"},
     total_bytes : {0, 100}, total_bytes_estimate : {100},
     downloaded_bytes : { ExamplePercents[k] : k \in 1..Len(ExamplePercents) },
     filename : {"-"}]

ExampleUpdate ==
    /\ Len(dl.log) < ExampleLen
    /\ \E d \in ExampleUpdates :
          /\ dl.log # <<>> => d.downloaded_bytes >= dl.log[Len(dl.log)].d.downloaded_bytes
          /\ dl' = progress_hook(dl, d)
    /\ UNCHANGED <<fnVars, botVars>>

ExampleNext == ExampleUpdate

SpecExample == ProgressInit /\ [][ExampleNext]_vars

\* the raw percentages of the updates seen so far
LogPercents == [k \in 1..Len(dl.log) |-> PercentOf(dl.log[k].d)]

\* C11 (as the code has it): updates whose raw percentages are
\* [3,7,11,15,22,31] against a known total yield progress callbacks exactly
\* at [11,22]: 31 is only 9 above the last reported 22.
C11_ExampleReports ==
    (dl.progress_callback /\ LogPercents = ExamplePercents) => dl.calls = <<11, 22>>

\* C11 (as stated): the same updates yield callbacks exactly at [11,22,31].
C11_ExampleAsStated ==
    (dl.progress_callback /\ LogPercents = ExamplePercents) => dl.calls = <<11, 22, 31>>

\* the six updates of the example were delivered to a hook with a callback
C11_Witness ==
    /\ dl.progress_callback
    /\ LogPercents = ExamplePercents
    /\ Len(dl.calls) = 2

(***************************************************************************)
(* The split of a raw title into performer and title.  A text is a         *)
(* sequence of characters; an optional value is a sequence of at most one  *)
(* value, <<>> standing for None.                                          *)
(***************************************************************************)
MaxTitleLen == 7    \* longest raw title given to the split

TitleChars == {"a", " ", "-"}

Uploaders == { <<>>, << <<>> >>, << <<"a">> >> }

Separator == <<" ", "-", " ">>

\* raw_title[k:k+3] == ' - ' (k counted from 1)
HasSepAt(s, k) == k >= 1 /\ k + 2 <= Len(s) /\ SubSeq(s, k, k + 2) = Separator

RECURSIVE FindSep(_, _)
\* str.find: the first position >= k where the separator starts, 0 if none
FindSep(s, k) ==
    IF k + 2 > Len(s) THEN 0
    ELSE IF HasSepAt(s, k) THEN k
    ELSE FindSep(s, k + 1)

RECURSIVE RFindSep(_, _)
\* str.rfind: the last position <= k where the separator starts, 0 if none
RFindSep(s, k) ==
    IF k < 1 THEN 0
    ELSE IF HasSepAt(s, k) THEN k
    ELSE RFindSep(s, k - 1)

RECURSIVE lstrip(_)
lstrip(s) == IF s # <<>> /\ Head(s) = " " THEN lstrip(Tail(s)) ELSE s

RECURSIVE rstrip(_)
rstrip(s) == IF s # <<>> /\ s[Len(s)] = " " THEN rstrip(SubSeq(s, 1, Len(s) - 1)) ELSE s

strip(s) == rstrip(lstrip(s))

\* the two parts around the separator that starts at k, stripped; without a
\* separator: uploader or '', and the raw title
SplitAt(raw_title, uploader, k) ==
    IF k # 0
    THEN [performer |-> strip(SubSeq(raw_title, 1, k - 1)),
          title     |-> strip(SubSeq(raw_title, k + 3, Len(raw_title)))]
    ELSE [performer |-> IF uploader = <<>> THEN <<>> ELSE uploader[1],
          title     |-> raw_title]

\* the split at the last separator, as rsplit(' - ', 1) does
split_title_last(raw_title, uploader) ==
    SplitAt(raw_title, uploader, RFindSep(raw_title, Len(raw_title)))

\* if ' - ' in raw_title: parts = raw_title.split(' - ', 1) ... else ...
split_title(raw_title, uploader) ==
    SplitAt(raw_title, uploader, FindSep(raw_title, 1))

(***************************************************************************)
(* SpecTitle: the split applied in either handler to every sampled title   *)
(***************************************************************************)
TitleInit ==
    /\ fn_pc = "call"
    /\ fn_args \in [raw_title : SeqsUpTo(TitleChars, MaxTitleLen),
                    uploader  : Uploaders,
                    handler   : {"web_app_data", "youtube_url"}]
    /\ fn_ret = Off
    /\ dl = dlOff
    /\ BotOff

\* both handlers hold the same statements
CallSplit ==
    /\ fn_pc = "call"
    /\ fn_ret' = split_title(fn_args.raw_title, fn_args.uploader)
    /\ fn_pc' = "done"
    /\ UNCHANGED <<fn_args, dl, botVars>>

TitleNext == CallSplit

SpecTitle == TitleInit /\ [][TitleNext]_vars

\* t is s without its leading and trailing spaces
IsTrimOf(t, s) ==
    \E a, b \in 0..Len(s) :
        /\ a + b <= Len(s)
        /\ t = SubSeq(s, a + 1, Len(s) - b)
        /\ \A j \in 1..a : s[j] = " "
        /\ \A j \in (Len(s) - b + 1)..Len(s) : s[j] = " "
        /\ t # <<>> => (t[1] # " " /\ t[Len(t)] # " ")

\* C14: if the raw title contains ' - ', performer is the trimmed text before
\* its first occurrence and title the trimmed text after it; otherwise
\* performer is the uploader (the empty text if there is none) and title is
\* the raw title unchanged.
C14_TitleSplit ==
    fn_pc = "done" =>
        LET raw  == fn_args.raw_title
            seps == { k \in 1..Len(raw) : HasSepAt(raw, k) }
        IN  IF seps # {}
            THEN \E k \in seps :
                    /\ \A j \in seps : k <= j
                    /\ IsTrimOf(fn_ret.performer, SubSeq(raw, 1, k - 1))
                    /\ IsTrimOf(fn_ret.title, SubSeq(raw, k + 3, Len(raw)))
            ELSE /\ fn_ret.title = raw
                 /\ fn_ret.performer =
                       (IF fn_args.uploader = <<>> THEN <<>> ELSE fn_args.uploader[1])

\* a raw title with two separators: the second one stays in the title
C14_Witness ==
    /\ fn_pc = "done"
    /\ HasSepAt(fn_args.raw_title, 2)
    /\ HasSepAt(fn_args.raw_title, 5)
    /\ fn_ret.performer = <<"a">>
    /\ fn_ret.title = <<"-">>

(***************************************************************************)
(* embed_metadata and fetch_lyrics.  What lrclib.net and the cover URL     *)
(* answer, and whether the audio file opens and saves, are inputs.         *)
(***************************************************************************)
CoverMax == 600

\* the answer to the lyrics request: a JSON object (an absent or null text
\* is ""), an HTTP error, a timeout, or a body that is no JSON object
LyricsAnswers ==
    { [kind |-> "ok", syncedLyrics |-> "[00:01] la", plainLyrics |-> "la"],
      [kind |-> "ok", syncedLyrics |-> "", plainLyrics |-> "la"],
      [kind |-> "ok", syncedLyrics |-> "", plainLyrics |-> ""],
      [kind |-> "http404", syncedLyrics |-> "", plainLyrics |-> ""],
      [kind |-> "http500", syncedLyrics |-> "", plainLyrics |-> ""],
      [kind |-> "timeout", syncedLyrics |-> "", plainLyrics |-> ""],
      [kind |-> "bad_json", syncedLyrics |-> "", plainLyrics |-> ""] }

\* the choice the other way round: the plain text preferred
LyricsOfPlainFirst(answer) ==
    LET lyrics == IF answer.plainLyrics # "" THEN answer.plainLyrics
                  ELSE answer.syncedLyrics
    IN  [raised |-> FALSE, value |-> IF lyrics # "" THEN <<lyrics>> ELSE <<>>]

\* data.get('syncedLyrics') or data.get('plainLyrics'), None for ""
LyricsOf(answer) ==
    LET lyrics == IF answer.syncedLyrics # "" THEN answer.syncedLyrics
                  ELSE answer.plainLyrics
    IN  [raised |-> FALSE, value |-> IF lyrics # "" THEN <<lyrics>> ELSE <<>>]

\* fetch_lyrics with the clause 'except Exception' left out
fetch_lyrics_http_only(answer) ==
    IF answer.kind = "ok" THEN LyricsOf(answer)
    ELSE IF answer.kind \in {"http404", "http500"} THEN [raised |-> FALSE, value |-> <<>>]
    ELSE [raised |-> TRUE, value |-> <<>>]

\* fetch_lyrics: the text, or None (<<>>) after any error
fetch_lyrics(answer) ==
    IF answer.kind = "ok" THEN LyricsOf(answer)
    ELSE [raised |-> FALSE, value |-> <<>>]

CoverDims == {1, 500, 599, 600, 601, 1080, 1920}

CoverModes == {"RGB", "RGBA", "P", "LA", "L", "CMYK", "F"}

\* modes Pillow writes as JPEG
JpegModes == {"RGB", "L", "CMYK", "1"}

\* what the cover URL yields: no answer, bytes that are no image, or an image
CoverAnswers ==
         { [fetch |-> "error", decodes |-> FALSE, width |-> 0, height |-> 0, mode |-> "-"],
           [fetch |-> "ok", decodes |-> FALSE, width |-> 0, height |-> 0, mode |-> "-"] }
    \cup [fetch : {"ok"}, decodes : {TRUE}, width : CoverDims, height : CoverDims,
          mode : CoverModes]

\* convert, crop and resize; box is the crop rectangle, <<>> if none.  With
\* always = TRUE the resize is done whatever the width.
Normalize(img, always) ==
    LET mode == IF img.mode \in {"RGBA", "P", "LA"} THEN "RGB" ELSE img.mode
        size == Min(img.width, img.height)
        left == (img.width - size) \div 2
        top  == (img.height - size) \div 2
        box  == IF img.width # img.height
                THEN <<left, top, left + size, top + size>> ELSE <<>>
        w1   == IF box # <<>> THEN box[3] - box[1] ELSE img.width
        h1   == IF box # <<>> THEN box[4] - box[2] ELSE img.height
    IN  IF always \/ w1 > CoverMax
        THEN [width |-> CoverMax, height |-> CoverMax, mode |-> mode, box |-> box]
        ELSE [width |-> w1, height |-> h1, mode |-> mode, box |-> box]

normalize_cover_always(img) == Normalize(img, TRUE)

\* the cover: RGB if it had an alpha channel or a palette, cropped to a
\* centred square, reduced to 600x600 if wider
normalize_cover(img) == Normalize(img, FALSE)

\* the try block of the cover: <<cover>> if it was embedded, <<>> if
\* anything in it raised
cover_of(answer) ==
    IF answer.fetch # "ok" \/ ~answer.decodes THEN <<>>
    ELSE LET img == normalize_cover(answer)
         IN  IF img.mode \in JpegModes THEN <<img>> ELSE <<>>

BasicTags(artist, title) ==
    [nam |-> title, ART |-> artist, alb |-> title, aART |-> artist, gen |-> "Music"]

(***************************************************************************)
(* SpecEmbed: one call of embed_metadata, statement by statement           *)
(***************************************************************************)
EmbedInit ==
    /\ fn_pc = "open"
    /\ fn_args \in [opens : BOOLEAN, saves : BOOLEAN, artist : {"A"}, title : {"T"},
                    lyrics : LyricsAnswers, cover : CoverAnswers]
    /\ fn_ret = [tags |-> <<>>, lyrics |-> <<>>, cover |-> <<>>, saved |-> FALSE]
    /\ dl = dlOff
    /\ BotOff

\* audio = MP4(file_path) and the five basic tags
EmbedOpen ==
    /\ fn_pc = "open"
    /\ IF fn_args.opens
       THEN /\ fn_ret' = [fn_ret EXCEPT !.tags = BasicTags(fn_args.artist, fn_args.title)]
            /\ fn_pc' = "lyrics"
       ELSE /\ fn_pc' = "raised"
            /\ UNCHANGED fn_ret
    /\ UNCHANGED <<fn_args, dl, botVars>>

\* lyrics = fetch_lyrics(artist, title) and the lyrics tag
EmbedLyrics ==
    /\ fn_pc = "lyrics"
    /\ LET r == fetch_lyrics(fn_args.lyrics)
       IN  IF r.raised
           THEN fn_pc' = "raised" /\ UNCHANGED fn_ret
           ELSE /\ fn_pc' = "cover"
                /\ fn_ret' = [fn_ret EXCEPT
                                !.lyrics = r.value,
                                !.tags = IF r.value # <<>> THEN ("lyr" :> r.value[1]) @@ @
                                         ELSE @]
    /\ UNCHANGED <<fn_args, dl, botVars>>

\* the try block of the cover and its except clause
EmbedCover ==
    /\ fn_pc = "cover"
    /\ LET c == cover_of(fn_args.cover)
       IN  fn_ret' = [fn_ret EXCEPT
                        !.cover = c,
                        !.tags = IF c # <<>> THEN ("covr" :> "JPEG") @@ @ ELSE @]
    /\ fn_pc' = "save"
    /\ UNCHANGED <<fn_args, dl, botVars>>

\* audio.save() and return lyrics
EmbedSave ==
    /\ fn_pc = "save"
    /\ IF fn_args.saves
       THEN fn_pc' = "returned" /\ fn_ret' = [fn_ret EXCEPT !.saved = TRUE]
       ELSE fn_pc' = "raised" /\ UNCHANGED fn_ret
    /\ UNCHANGED <<fn_args, dl, botVars>>

EmbedNext == EmbedOpen \/ EmbedLyrics \/ EmbedCover \/ EmbedSave

SpecEmbed == EmbedInit /\ [][EmbedNext]_vars

\* C18: whatever the lyrics lookup answers (found, not found, HTTP error,
\* timeout, no JSON) and whatever happens to the cover (fetched or not,
\* decoded or not, written as JPEG or not), an embed_metadata whose audio
\* file opens and saves ends by returning, with the title, artist, album,
\* album artist and genre tags written and the file saved; it never raises.
C18_EnrichmentAbsorbed ==
    (fn_pc \in {"returned", "raised"} /\ fn_args.opens /\ fn_args.saves) =>
        /\ fn_pc = "returned"
        /\ fn_ret.saved
        /\ \A k \in {"nam", "ART", "alb", "aART", "gen"} :
              k \in DOMAIN fn_ret.tags
        /\ fn_ret.tags["nam"] = fn_args.title /\ fn_ret.tags["alb"] = fn_args.title
        /\ fn_ret.tags["ART"] = fn_args.artist /\ fn_ret.tags["aART"] = fn_args.artist
        /\ fn_ret.tags["gen"] = "Music"

\* the lyrics request timed out and the cover was not fetched: saved all the same
C18_Witness ==
    /\ fn_pc = "returned"
    /\ fn_args.lyrics.kind = "timeout"
    /\ fn_args.cover.fetch = "error"
    /\ fn_ret.saved
    /\ DOMAIN fn_ret.tags = {"nam", "ART", "alb", "aART", "gen"}

\* C20: for a source image of width w and height h, the embedded cover is a
\* square of side min(w, h, 600), never larger than the source; a source that
\* is not square is cropped at offset (dim - size) div 2 on its larger axis
\* and 0 on the other; an image of a mode JPEG can hold, or one converted to
\* RGB, is embedded.
C20_CoverSquare ==
    fn_pc \in {"save", "returned"} =>
        LET a == fn_args.cover
            side == Min(a.width, Min(a.height, 600))
            small == Min(a.width, a.height)
        IN  /\ fn_ret.cover # <<>> =>
                 LET c == fn_ret.cover[1]
                 IN  /\ a.fetch = "ok" /\ a.decodes
                     /\ c.width = side /\ c.height = side
                     /\ c.width <= a.width /\ c.height <= a.height
                     /\ a.width = a.height => c.box = <<>>
                     /\ a.width > a.height =>
                           c.box = <<(a.width - small) \div 2, 0,
                                     (a.width - small) \div 2 + small, small>>
                     /\ a.width < a.height =>
                           c.box = <<0, (a.height - small) \div 2,
                                     small, (a.height - small) \div 2 + small>>
            /\ (a.fetch = "ok" /\ a.decodes /\ a.mode \in {"RGB", "RGBA", "P", "LA", "L", "CMYK"})
                  => fn_ret.cover # <<>>

\* a 1920x1080 source with an alpha channel became a 600x600 RGB cover
C20_Witness ==
    /\ fn_pc = "returned"
    /\ fn_args.cover.width = 1920 /\ fn_args.cover.height = 1080
    /\ fn_args.cover.mode = "RGBA"
    /\ fn_ret.cover # <<>>
    /\ fn_ret.cover[1].width = 600 /\ fn_ret.cover[1].height = 600
    /\ fn_ret.cover[1].mode = "RGB"

(***************************************************************************)
(* fetch_lyrics on its own: the cleaning of artist and title, the request  *)
(* and what becomes of its answer                                          *)
(***************************************************************************)
MaxTagLen == 3

TagChars == {"a", " ", "(", "]"}

\* the character classes [\(\[] and [\)\]]
OpenChars == {"(", "["}

CloseChars == {")", "]"}

SampleArtists == { <<"a">>, <<"a", " ", "[", "a", ")">> }

\* the length of the run of blanks s starts with
RECURSIVE WsRun(_)
WsRun(s) == IF s # <<>> /\ Head(s) = " " THEN 1 + WsRun(Tail(s)) ELSE 0

\* re.sub(r'\s*[\(\[].*?[\)\]]', '', s): from the left, blanks and an
\* opening bracket up to the first closing bracket after it are removed
RECURSIVE RemoveTags(_)
RemoveTags(s) ==
    IF s = <<>> THEN <<>>
    ELSE LET rest == SubSeq(s, WsRun(s) + 1, Len(s))
             closes == IF rest # <<>> /\ Head(rest) \in OpenChars
                       THEN { j \in 2..Len(rest) : rest[j] \in CloseChars }
                       ELSE {}
         IN  IF closes # {}
             THEN LET j == CHOOSE c \in closes : \A d \in closes : c <= d
                  IN  RemoveTags(SubSeq(rest, j + 1, Len(rest)))
             ELSE <<Head(s)>> \o RemoveTags(Tail(s))

\* clean_title, clean_artist
clean_tag(s) == strip(RemoveTags(s))

\* the answers of the lookup: those above and one with synchronized text only
LookupAnswers ==
    LyricsAnswers \cup
        { [kind |-> "ok", syncedLyrics |-> "[00:01] la", plainLyrics |-> ""] }

LyricsInit ==
    /\ fn_pc = "call"
    /\ fn_args \in [artist : SampleArtists, title : SeqsUpTo(TagChars, MaxTagLen),
                    answer : LookupAnswers]
    /\ fn_ret = Off
    /\ dl = dlOff
    /\ BotOff

\* one call of fetch_lyrics: the query it sends and what it returns
CallLyrics ==
    /\ fn_pc = "call"
    /\ LET r == fetch_lyrics(fn_args.answer)
       IN  fn_ret' = [query  |-> [artist_name |-> clean_tag(fn_args.artist),
                                  track_name  |-> clean_tag(fn_args.title)],
                      raised |-> r.raised,
                      value  |-> r.value]
    /\ fn_pc' = "looked_up"
    /\ UNCHANGED <<fn_args, dl, botVars>>

LyricsNext == CallLyrics

SpecLyrics == LyricsInit /\ [][LyricsNext]_vars

\* C21: fetch_lyrics returns the synchronized text when the answer holds
\* both a synchronized and a plain text, the plain text when only that one
\* is present, and None when the lookup answers 404 or fails in any other
\* way (another HTTP status, a timeout, a body that is no JSON object); it
\* raises for none of these.
C21_LyricsChoice ==
    fn_pc = "looked_up" =>
        LET a == fn_args.answer
        IN  /\ ~fn_ret.raised
            /\ (a.kind = "ok" /\ a.syncedLyrics # "" /\ a.plainLyrics # "")
                   => fn_ret.value = <<a.syncedLyrics>>
            /\ (a.kind = "ok" /\ a.syncedLyrics = "" /\ a.plainLyrics # "")
                   => fn_ret.value = <<a.plainLyrics>>
            /\ a.kind # "ok" => fn_ret.value = <<>>

C21_Witness ==
    /\ fn_pc = "looked_up"
    /\ fn_args.title = <<"a", "(", "]">>
    /\ fn_ret.query.track_name = <<"a">>
    /\ fn_args.artist = <<"a", " ", "[", "a", ")">>
    /\ fn_ret.query.artist_name = <<"a">>
    /\ fn_args.answer.kind = "ok"
    /\ fn_args.answer.syncedLyrics # "" /\ fn_args.answer.plainLyrics # ""
    /\ fn_ret.value = <<fn_args.answer.syncedLyrics>>

(***************************************************************************)
(* The bot: configuration and what the outside world can answer            *)
(***************************************************************************)
NumThreads       == 2          \* telebot.TeleBot: its pool of worker threads
MAX_FILE_SIZE_MB == 50
BytesPerMB       == 1048576
DefaultMaxUrlLen == 2000

\* the worker threads of the pool
Threads       == DOMAIN th
Users         == {1, 2}

\* the set read from the environment when the bot starts; it never changes
ALLOWED_USERS == fn_args.ALLOWED_USERS

\* the test without the case of the empty set
is_allowed_listed(user_id) == user_id \in ALLOWED_USERS

\* bot.py is_allowed
is_allowed(user_id) == IF ALLOWED_USERS = {} THEN TRUE ELSE user_id \in ALLOWED_USERS

IdSmall == "dQw4w9WgXcQ"    \* a video of 3 MB
IdBig   == "9bZkp7q19f0"    \* a video of 50 MB and one byte
IdLimit == "kJQP7kiw5Fk"    \* a video of exactly 50 MB, titled as IdSmall is
VideoIds == {IdSmall, IdBig, IdLimit}

\* what the extractor knows of a video: the title that names the downloaded
\* file, and the size of the file once its tags are written
Video(id) ==
    CASE id = IdSmall -> [title |-> "Never", size |-> 3 * BytesPerMB]
      [] id = IdBig   -> [title |-> "Gangnam", size |-> MAX_FILE_SIZE_MB * BytesPerMB + 1]
      [] id = IdLimit -> [title |-> "Never", size |-> MAX_FILE_SIZE_MB * BytesPerMB]

Entry(id, title, duration) == [id |-> id, title |-> title, duration |-> duration]

\* downloader.get_playlist_info(url): {title, count, entries}
get_playlist_info(url) ==
    CASE url = "list=PLempty" ->
           [title |-> "Empty", count |-> 0, entries |-> <<>>]
      [] url = "list=PLmix" ->
           [title |-> "Mix", count |-> 5,
            entries |-> << Entry(IdSmall, <<Run("a", 5)>>, 212),
                           Entry(IdBig, <<Run("U+044F", 7)>>, 0),
                           Entry(IdSmall, <<Run("a", 5), Run("\"", 2)>>, 213) >>]
      [] url = "list=PLlong" ->
           [title |-> "Long", count |-> 3,
            entries |-> << Entry(IdLimit, <<Run("a", 600)>>, 59),
                           Entry(IdSmall, <<Run("U+65E5", 200)>>, 600),
                           Entry(IdBig, <<Run("a", 600)>>, 6000) >>]
      [] url = "list=PLhuge" ->
           [title |-> "Huge", count |-> 1,
            entries |-> << Entry(IdSmall, <<Run("U+044F", 750)>>, 10) >>]

PlaylistUrls == {"list=PLempty", "list=PLmix", "list=PLlong", "list=PLhuge"}

\* {e['id']: e for e in entries}: a later entry replaces an earlier one of the same id
DictOf(entries) ==
    [id \in { entries[k].id : k \in 1..Len(entries) } |->
        LET last == CHOOSE k \in 1..Len(entries) :
                       /\ entries[k].id = id
                       /\ \A j \in (k + 1)..Len(entries) : entries[j].id # id
        IN  entries[last]]

\* the session stored with its dict built from the first page only
NewSessionFirstPage(playlist_info, url, page_size) ==
    [entries      |-> DictOf(PySlice(playlist_info.entries, 0, page_size)),
     entries_list |-> playlist_info.entries,
     title        |-> playlist_info.title,
     total        |-> playlist_info.count,
     page_size    |-> page_size,
     url          |-> url]

\* the value handle_playlist_url stores in playlist_cache[user_id]
NewSession(playlist_info, url, page_size) ==
    [entries      |-> DictOf(playlist_info.entries),
     entries_list |-> playlist_info.entries,
     title        |-> playlist_info.title,
     total        |-> playlist_info.count,
     page_size    |-> page_size,
     url          |-> url]

\* the checks with the test of page_size left out
PlaylistCheckNoFit(entries, page_size) ==
    IF entries = <<>> THEN "empty" ELSE "ok"

\* the checks of handle_playlist_url before it stores a session
PlaylistCheck(entries, page_size) ==
    IF entries = <<>> THEN "empty"
    ELSE IF page_size = 0 THEN "fit0"
    ELSE "ok"

\* the assignment done as an update of the user's earlier session: the
\* entries of the earlier playlist stay in the dict
StoreSessionMerged(cache, user_id, session) ==
    IF user_id \in DOMAIN cache
    THEN (user_id :> [session EXCEPT !.entries = @ @@ cache[user_id].entries]) @@ cache
    ELSE (user_id :> session) @@ cache

\* playlist_cache[user_id] = {...}
StoreSession(cache, user_id, session) == (user_id :> session) @@ cache

\* what handle_playlist_url computes from a url, tabulated: the playlist, the
\* page size, the outcome of the checks and the session it would store
Resolved ==
    [url \in PlaylistUrls |->
        LET playlist_info == get_playlist_info(url)
            page_size == calc_max_tracks_for_url(playlist_info.entries, WEBAPP_URL,
                                                 DefaultMaxUrlLen)
        IN  [page_size |-> page_size,
             check     |-> PlaylistCheck(playlist_info.entries, page_size),
             session   |-> NewSession(playlist_info, url, page_size)]]

NoPath == <<>>

IdleThread ==
    [pc |-> "idle", handler |-> "None", user_id |-> 0, result |-> "None",
     tracks_to_download |-> <<>>, i |-> 0, file_path |-> NoPath, lrc_path |-> NoPath,
     asset |-> {}, attempted |-> <<>>, delivered |-> 0, said |-> "None",
     summary |-> 0, url |-> "None", selected |-> <<>>, page |-> <<>>]

\* the handler of thread w returns with the given result
Returns(w, t, result) ==
    th' = [th EXCEPT ![w] = [t EXCEPT !.pc = "return", !.result = result]]

\* the bot started with ALLOWED_USERS=1
Init ==
    /\ fn_pc = "off"
    /\ fn_args = [ALLOWED_USERS |-> {1}]
    /\ fn_ret = Off
    /\ dl = dlOff
    /\ playlist_cache = <<>>
    /\ files = <<>>
    /\ th = [w \in 1..NumThreads |-> IdleThread]

\* A handler that has returned leaves its thread idle before anything else
\* happens: the return touches nothing the other threads read.
NoneReturning == \A v \in Threads : th[v].pc # "return"

\* an idle thread takes the next update (the first idle one: the threads of
\* the pool are alike)
Takes(w) ==
    /\ NoneReturning
    /\ th[w].pc = "idle"
    /\ \A v \in 1..(w - 1) : th[v].pc # "idle"

(***************************************************************************)
(* handle_playlist_url.  fault names the call that raises, if any.         *)
(***************************************************************************)
handle_playlist_url(w, user_id, url, fault) ==
    LET t == [IdleThread EXCEPT !.handler = "playlist_url", !.user_id = user_id]
        \* the url is kept with the outcomes that depend on it
        tu == [t EXCEPT !.url = url]
        check == Resolved[url].check
    IN  /\ Takes(w)
        /\ UNCHANGED <<fnVars, dl, files>>
        /\ IF ~is_allowed(user_id)
           THEN fault = "none" /\ Returns(w, t, "not_allowed") /\ UNCHANGED playlist_cache
           ELSE CASE fault = "reply" ->
                       Returns(w, t, "raised") /\ UNCHANGED playlist_cache
                  [] fault = "resolve" ->
                       Returns(w, t, "error") /\ UNCHANGED playlist_cache
                  [] fault \in {"none", "edit"} /\ check # "ok" ->
                       /\ IF fault = "none" THEN Returns(w, tu, check)
                                          ELSE Returns(w, t, "error")
                       /\ UNCHANGED playlist_cache
                  [] fault \in {"none", "edit"} /\ check = "ok" ->
                       /\ playlist_cache' =
                             StoreSession(playlist_cache, user_id, Resolved[url].session)
                       /\ IF fault = "none" THEN Returns(w, tu, "shown")
                                          ELSE Returns(w, t, "error")

\* handle_start and handle_help ("command": they differ in the text of the
\* reply only) and handle_other ("other"): the one reply of the handler
handle_command(w, user_id, command, fault) ==
    LET t == [IdleThread EXCEPT !.handler = command, !.user_id = user_id]
    IN  /\ Takes(w)
        /\ UNCHANGED <<fnVars, dl, files, playlist_cache>>
        /\ IF ~is_allowed(user_id) THEN fault = "none" /\ Returns(w, t, "not_allowed")
           ELSE IF fault = "reply" THEN Returns(w, t, "raised")
           ELSE Returns(w, [t EXCEPT !.said = "reply"], "replied")

Return(w) ==
    /\ th[w].pc = "return"
    /\ th' = [th EXCEPT ![w] = IdleThread]
    /\ UNCHANGED <<fnVars, dl, playlist_cache, files>>

(***************************************************************************)
(* handle_playlist_navigation.  call.data is 'pl:<start>:<page_size>' or   *)
(* a text the handler cannot split into three numbers.                     *)
(***************************************************************************)
NavData ==
    { [ok |-> FALSE, start |-> 0, page_size |-> 0],
      [ok |-> TRUE, start |-> 0, page_size |-> 2],
      [ok |-> TRUE, start |-> 2, page_size |-> 2],
      [ok |-> TRUE, start |-> -1, page_size |-> 3] }

\* the page the handler renders for a session of the given url, tabulated
NavPages ==
    [url \in { u \in PlaylistUrls : Resolved[u].check = "ok" } |->
        [data \in { d \in NavData : d.ok } |->
            LET cached == Resolved[url].session
            IN  build_playlist_keyboard(cached.entries_list, Max(0, data.start),
                                        data.page_size, cached.total)]]

handle_playlist_navigation(w, user_id, data, fault) ==
    LET t == [IdleThread EXCEPT !.handler = "playlist_navigation", !.user_id = user_id]
    IN  /\ Takes(w)
        /\ UNCHANGED <<fnVars, dl, files, playlist_cache>>
        /\ IF ~is_allowed(user_id) THEN fault = "none" /\ Returns(w, t, "not_allowed")
           ELSE IF user_id \notin DOMAIN playlist_cache
                THEN /\ fault \in {"none", "answer"}
                     /\ Returns(w, t, IF fault = "none" THEN "expired" ELSE "raised")
           ELSE IF ~data.ok THEN fault = "none" /\ Returns(w, t, "nav_error")
           ELSE CASE fault = "none" ->
                       Returns(w, [t EXCEPT !.page = NavPages[playlist_cache[user_id].url][data]],
                               "navigated")
                  [] fault = "edit" -> Returns(w, t, "nav_error")
                  [] fault = "answer" ->
                       Returns(w, [t EXCEPT !.page = NavPages[playlist_cache[user_id].url][data]],
                               "nav_error")

(***************************************************************************)
(* SpecPages: one user resolving playlists and clicking the navigation     *)
(* buttons of the messages the bot has sent.  Two messages are followed:   *)
(* the one of the latest resolution ("current") and the one it superseded  *)
(* ("old"), whose buttons stay in the chat.  A click edits the message     *)
(* that carries the button.                                                *)
(***************************************************************************)
MaxPageEntries == 6

PageUser == 1

PageShort == Entry(IdSmall, <<Run("a", 5)>>, 212)

\* a title of the greatest length YouTube accepts, in characters of 4 bytes
PageLong == Entry(IdBig, <<Run("U+1F600", 100)>>, 600)

Repeat(e, n) == [k \in 1..n |-> e]

\* playlists of short titles followed by long ones
PagePlaylists ==
    { Repeat(PageShort, i) \o Repeat(PageLong, n - i) :
        <<i, n>> \in { p \in (0..MaxPageEntries) \X (1..MaxPageEntries) : p[1] <= p[2] } }

\* what handle_playlist_url computes from the entries, tabulated
PageResolved ==
    [entries \in PagePlaylists |->
        LET playlist_info == [title |-> "P", count |-> Len(entries), entries |-> entries]
            page_size == calc_max_tracks_for_url(entries, WEBAPP_URL, DefaultMaxUrlLen)
        IN  [page_size |-> page_size,
             check     |-> PlaylistCheck(entries, page_size),
             session   |-> NewSession(playlist_info, "list=P", page_size)]]

NoMessage == <<>>

PagesInit ==
    /\ fn_pc = "none"
    /\ fn_args = Off
    /\ fn_ret = [current |-> NoMessage, old |-> NoMessage]
    /\ dl = dlOff
    /\ playlist_cache = <<>>
    /\ files = <<>>
    /\ th = <<>>

\* handle_playlist_url for a playlist of the given entries; with fault
\* "edit" the edit that would show the keyboard raises, and the status
\* message is left to the error text
PagesResolve(entries, fault) ==
    LET r == PageResolved[entries]
        cached == r.session
    IN  /\ fn_pc' = IF r.check # "ok" THEN r.check
                    ELSE IF fault = "edit" THEN "error" ELSE "current"
        /\ playlist_cache' = IF r.check = "ok"
                             THEN StoreSession(playlist_cache, PageUser, cached)
                             ELSE playlist_cache
        /\ fn_ret' = [current |-> IF r.check = "ok" /\ fault = "none"
                                  THEN <<build_playlist_keyboard(entries, 0, r.page_size,
                                                                 cached.total)>>
                                  ELSE NoMessage,
                      old     |-> IF fn_ret.current # NoMessage THEN fn_ret.current
                                  ELSE fn_ret.old]
        /\ UNCHANGED <<fn_args, dl, files, th>>

\* handle_playlist_navigation for a click on the k-th navigation button of
\* message m; with fault "edit" the edit of the message raises
PagesClick(m, k, fault) ==
    /\ fn_ret[m] # NoMessage
    /\ k \in 1..Len(fn_ret[m][1].nav)
    /\ LET data == fn_ret[m][1].nav[k].callback_data
           start_idx == Max(0, data[2])
           page_size == data[3]
       IN  IF PageUser \notin DOMAIN playlist_cache
           THEN fn_pc' = "expired" /\ UNCHANGED fn_ret
           ELSE IF fault = "edit"
           THEN fn_pc' = "nav_error" /\ UNCHANGED fn_ret
           ELSE LET cached == playlist_cache[PageUser]
                IN  /\ fn_pc' = m
                    /\ fn_ret' = [fn_ret EXCEPT
                                    ![m] = <<build_playlist_keyboard(cached.entries_list,
                                               start_idx, page_size, cached.total)>>]
    /\ UNCHANGED <<fn_args, dl, playlist_cache, files, th>>

PagesNext ==
    \/ \E entries \in PagePlaylists, fault \in {"none", "edit"} : PagesResolve(entries, fault)
    \/ \E m \in {"current", "old"}, k \in 1..2, fault \in {"none", "edit"} :
          PagesClick(m, k, fault)

SpecPages == PagesInit /\ [][PagesNext]_vars

\* the page the last handler has rendered, if it rendered one
Rendered == IF fn_pc \in {"current", "old"} THEN fn_ret[fn_pc] ELSE NoMessage

\* C22: every page offered to the user fits the transport limit: the
\* selection URL of the page a resolution or a click has just rendered is
\* at most 2000 characters long.
C22_EveryPageFits ==
    Rendered # NoMessage => Rendered[1].url_len <= DefaultMaxUrlLen

\* C23: every rendered page is a window [s, min(s + page_size, len)) of the
\* current session, with the session's page size and 0 <= s < len: it is
\* never empty and never cut with another page size.
C23_PageIsSessionWindow ==
    Rendered # NoMessage =>
        LET cached == playlist_cache[PageUser]
            len    == Len(cached.entries_list)
            s      == Rendered[1].start - 1
        IN  /\ s \in 0..(len - 1)
            /\ Rendered[1].end = Min(s + cached.page_size, len)
            /\ Rendered[1].tracks # <<>>

(***************************************************************************)
(* The downloads directory                                                 *)
(***************************************************************************)
\* download_audio's outtmpl: downloads/<title>.<ext>
PathOf(id) == <<Video(id).title, "m4a">>

\* Path(file_path).with_suffix('.lrc')
LrcPathOf(path) == <<path[1], "lrc">>

Exists(path) == path \in DOMAIN files

\* a download writes the file unless a file of that name is there already
Written(fs, path, size) == IF path \in DOMAIN fs THEN fs ELSE (path :> size) @@ fs

\* Path.unlink(missing_ok=True)
Unlinked(fs, path) == [q \in DOMAIN fs \ {path} |-> fs[q]]

\* the size test with the size taken in whole megabytes
OverLimitWholeMB(size) == size \div BytesPerMB > MAX_FILE_SIZE_MB

\* file_size_mb = st_size / (1024 * 1024); file_size_mb > MAX_FILE_SIZE_MB
OverLimit(size) == size > MAX_FILE_SIZE_MB * BytesPerMB

(***************************************************************************)
(* handle_web_app_data.  Each step names the call that raises, if any.     *)
(***************************************************************************)
\* message.web_app_data.data: text that is no JSON, or a selection of ids
Selections ==
    { [ok |-> FALSE, selected |-> <<>>],
      [ok |-> TRUE,  selected |-> <<>>],
      [ok |-> TRUE,  selected |-> <<IdLimit>>],
      [ok |-> TRUE,  selected |-> <<IdSmall, IdBig, IdLimit>>] }

RECURSIVE Lookup(_, _)
\* [entries[vid] for vid in selected_ids if vid in entries]
Lookup(entries, selected_ids) ==
    IF selected_ids = <<>> THEN <<>>
    ELSE IF Head(selected_ids) \in DOMAIN entries
         THEN <<entries[Head(selected_ids)]>> \o Lookup(entries, Tail(selected_ids))
         ELSE Lookup(entries, Tail(selected_ids))

\* the lookup with a default: a user without a session gets an empty one
playlist_cache_get_default(cache, user_id) ==
    IF user_id \in DOMAIN cache THEN <<cache[user_id]>> ELSE << [entries |-> <<>>] >>

\* playlist_cache.get(user_id): <<>> stands for None
playlist_cache_get(cache, user_id) ==
    IF user_id \in DOMAIN cache THEN <<cache[user_id]>> ELSE <<>>

WebAppStart(w, user_id, data, fault) ==
    LET t  == [IdleThread EXCEPT !.handler = "web_app_data", !.user_id = user_id]
        ts == [t EXCEPT !.selected = data.selected]
    IN  /\ Takes(w)
        /\ UNCHANGED <<fnVars, dl, files, playlist_cache>>
        /\ IF ~is_allowed(user_id) THEN fault = "none" /\ Returns(w, t, "not_allowed")
           ELSE IF ~data.ok THEN fault = "none" /\ Returns(w, t, "bad_json")
           ELSE IF data.selected = <<>>
                THEN fault = "none" /\ Returns(w, t, "nothing_selected")
           ELSE IF playlist_cache_get(playlist_cache, user_id) = <<>>
                THEN fault = "none" /\ Returns(w, ts, "expired")
           ELSE LET cached == playlist_cache_get(playlist_cache, user_id)[1]
                    tracks == Lookup(cached.entries, data.selected)
                    t2     == [ts EXCEPT !.tracks_to_download = tracks, !.said = "status"]
                IN  IF tracks = <<>> THEN fault = "none" /\ Returns(w, ts, "not_found")
                    ELSE th' = [th EXCEPT ![w] =
                                   IF fault = "reply"
                                   THEN [t2 EXCEPT !.pc = "return", !.result = "status_failed"]
                                   ELSE [t2 EXCEPT !.pc = "loop"]]

\* the loop is left at the first failed track
BreakLoop(t) == [t EXCEPT !.pc = "loop", !.file_path = NoPath,
                          !.i = Len(t.tracks_to_download)]

\* the except clause lies inside the for loop: the next track follows
\* (file_path is assigned again before it is read: its value is dropped)
ContinueLoop(t) == [t EXCEPT !.pc = "loop", !.file_path = NoPath]

InBatch(w, pc) == NoneReturning /\ th[w].handler = "web_app_data" /\ th[w].pc = pc

\* The inner except clause: the error
\* notice is sent and the loop goes on; if the notice raises in its turn, the
\* outer except clause replies (or fails to) and the handler returns.
Excepted(t, notice_raises) ==
    IF notice_raises
    THEN [t EXCEPT !.pc = "return", !.result = "notice_failed"]
    ELSE ContinueLoop([t EXCEPT !.said = "error"])

\* the next track: the status edit, get_video_info, download_audio, the
\* title split and embed_metadata
TrackFetch(w, fault, notice_raises) ==
    LET t     == th[w]
        track == t.tracks_to_download[t.i + 1]
        path  == PathOf(track.id)
        t2    == [t EXCEPT !.i = @ + 1, !.asset = {}, !.attempted = Append(@, track.id),
                           !.said = "progress"]
        t3    == [t2 EXCEPT !.file_path = path, !.asset = {path}]
    IN  /\ InBatch(w, "loop")
        /\ t.i < Len(t.tracks_to_download)
        /\ UNCHANGED <<fnVars, dl, playlist_cache>>
        /\ CASE fault \in {"edit", "resolve", "download"} ->
                  /\ th' = [th EXCEPT ![w] = Excepted(t2, notice_raises)]
                  /\ UNCHANGED files
             [] fault = "embed" ->
                  /\ files' = Written(files, path, Video(track.id).size)
                  /\ th' = [th EXCEPT ![w] = Excepted(t3, notice_raises)]
             [] fault = "none" ->
                  /\ ~notice_raises
                  /\ files' = Written(files, path, Video(track.id).size)
                  /\ th' = [th EXCEPT ![w] = [t3 EXCEPT !.pc = "size"]]

\* the size test and what follows it.  Over the limit: unlink, the
\* "skipped" notice, continue.  Otherwise: open, send_audio, unlink.
TrackDeliver(w, fault, notice_raises) ==
    LET t == th[w]
    IN  /\ InBatch(w, "size")
        /\ UNCHANGED <<fnVars, dl, playlist_cache>>
        /\ IF ~Exists(t.file_path)
           THEN /\ fault = "none"
                /\ th' = [th EXCEPT ![w] = Excepted(t, notice_raises)]
                /\ UNCHANGED files
           ELSE IF OverLimit(files[t.file_path])
           THEN /\ fault \in {"none", "notice"}
                /\ files' = Unlinked(files, t.file_path)
                /\ th' = [th EXCEPT ![w] =
                             IF fault = "none"
                             THEN ContinueLoop([t EXCEPT !.said = "skipped"])
                             ELSE Excepted(t, notice_raises)]
                /\ fault = "none" => ~notice_raises
           ELSE IF fault = "none"
           THEN /\ ~notice_raises
                /\ files' = Unlinked(files, t.file_path)
                /\ th' = [th EXCEPT ![w] =
                             ContinueLoop([t EXCEPT !.delivered = @ + 1, !.said = "audio"])]
           ELSE /\ fault = "send"
                /\ th' = [th EXCEPT ![w] = Excepted(t, notice_raises)]
                /\ UNCHANGED files

\* after the loop: the summary, then playlist_cache.pop(user_id, None); if
\* the summary raises, the outer except clause replies and the handler returns
BatchSummary(w, fault) ==
    LET t == [th[w] EXCEPT !.summary = Len(th[w].tracks_to_download), !.said = "summary"]
    IN  /\ InBatch(w, "loop")
        /\ t.i = Len(t.tracks_to_download)
        /\ UNCHANGED <<fnVars, dl, files>>
        /\ IF fault = "none"
           THEN /\ playlist_cache' =
                      [u \in DOMAIN playlist_cache \ {t.user_id} |-> playlist_cache[u]]
                /\ Returns(w, t, "completed")
           ELSE /\ Returns(w, t, "summary_failed")
                /\ UNCHANGED playlist_cache

(***************************************************************************)
(* handle_youtube_url.  Each step names the call that raises, if any; the  *)
(* except clause (the error edit, which may raise in its turn) ends it.    *)
(***************************************************************************)
InSingle(w, pc) == NoneReturning /\ th[w].handler = "youtube_url" /\ th[w].pc = pc

\* the status reply, get_video_info, the "0%" edit, download_audio, the
\* "metadata" edit, embed_metadata and the .lrc file
SingleStart(w, user_id, id, fault, lyrics) ==
    LET t    == [IdleThread EXCEPT !.handler = "youtube_url", !.user_id = user_id]
        path == PathOf(id)
        lrc  == LrcPathOf(path)
        t2   == [t EXCEPT !.file_path = path, !.asset = {path}]
        fs   == Written(files, path, Video(id).size)
    IN  /\ Takes(w)
        /\ UNCHANGED <<fnVars, dl, playlist_cache>>
        /\ IF ~is_allowed(user_id)
           THEN fault = "none" /\ ~lyrics /\ Returns(w, t, "not_allowed") /\ UNCHANGED files
           ELSE CASE fault = "reply" ->
                       ~lyrics /\ Returns(w, t, "raised") /\ UNCHANGED files
                  [] fault \in {"resolve", "edit", "download"} ->
                       ~lyrics /\ Returns(w, t, "error") /\ UNCHANGED files
                  [] fault \in {"edit2", "embed"} ->
                       ~lyrics /\ Returns(w, t2, "error") /\ files' = fs
                  [] fault = "none" /\ ~lyrics ->
                       /\ files' = fs
                       /\ th' = [th EXCEPT ![w] = [t2 EXCEPT !.pc = "size"]]
                  [] fault = "none" /\ lyrics ->
                       /\ files' = Written(fs, lrc, 1)
                       /\ th' = [th EXCEPT ![w] =
                                    [t2 EXCEPT !.pc = "size", !.lrc_path = lrc,
                                               !.asset = {path, lrc}]]

\* the size test and what follows it.  Over the limit: both files unlinked,
\* the "too large" edit.  Otherwise: the "sending" edit, send_audio,
\* send_document and unlink of the .lrc file, delete_message, unlink of the
\* audio file.
SingleDeliver(w, fault) ==
    LET t       == th[w]
        has_lrc == t.lrc_path # NoPath /\ Exists(t.lrc_path)
        no_lrc  == IF has_lrc THEN Unlinked(files, t.lrc_path) ELSE files
    IN  /\ InSingle(w, "size")
        /\ UNCHANGED <<fnVars, dl, playlist_cache>>
        /\ IF ~Exists(t.file_path)
           THEN fault = "none" /\ Returns(w, t, "error") /\ UNCHANGED files
           ELSE IF OverLimit(files[t.file_path])
           THEN /\ fault \in {"none", "edit"}
                /\ files' = Unlinked(Unlinked(files, t.file_path), t.lrc_path)
                /\ Returns(w, t, IF fault = "none" THEN "too_large" ELSE "error")
           ELSE CASE fault \in {"edit", "send"} ->
                       Returns(w, t, "error") /\ UNCHANGED files
                  [] fault = "document" ->
                       has_lrc /\ Returns(w, t, "error") /\ UNCHANGED files
                  [] fault = "delete" ->
                       Returns(w, t, "error") /\ files' = no_lrc
                  [] fault = "none" ->
                       Returns(w, t, "sent") /\ files' = Unlinked(no_lrc, t.file_path)

(***************************************************************************)
(* Spec: the bot, its worker threads interleaved                           *)
(***************************************************************************)
Step(w) ==
        \/ \E u \in Users, url \in PlaylistUrls, f \in {"none", "reply", "resolve", "edit"} :
              handle_playlist_url(w, u, url, f)
        \/ \E u \in Users, data \in NavData, f \in {"none", "edit", "answer"} :
              handle_playlist_navigation(w, u, data, f)
        \/ \E u \in Users, data \in Selections, f \in {"none", "reply"} :
              WebAppStart(w, u, data, f)
        \/ \E f \in {"none", "edit", "resolve", "download", "embed"}, n \in BOOLEAN :
              TrackFetch(w, f, n)
        \/ \E f \in {"none", "notice", "send"}, n \in BOOLEAN : TrackDeliver(w, f, n)
        \/ \E f \in {"none", "edit"} : BatchSummary(w, f)
        \/ \E u \in Users, id \in {IdSmall, IdBig}, lyrics \in BOOLEAN,
              f \in {"none", "reply", "resolve", "edit", "download", "edit2", "embed"} :
              SingleStart(w, u, id, f, lyrics)
        \/ \E f \in {"none", "edit", "send", "document", "delete"} : SingleDeliver(w, f)

\* The handlers that read or write playlist_cache or the downloads
\* directory; handle_start, handle_help and handle_other only reply and are
\* followed in SpecAccess.
Next == \E w \in Threads : Step(w) \/ Return(w)

Spec == Init /\ [][Next]_vars

(***************************************************************************)
(* Properties of the batch delivery loop                                   *)
(***************************************************************************)
Batch(w) == th[w].handler = "web_app_data" /\ th[w].tracks_to_download # <<>>

IdsOf(tracks) == [k \in 1..Len(tracks) |-> tracks[k].id]

LimitBytes == MAX_FILE_SIZE_MB * 1024 * 1024

C3_SummaryCountsDelivered ==
    \A w \in Threads :
        (Batch(w) /\ th[w].pc = "return" /\ th[w].said = "summary")
            => th[w].summary = th[w].delivered

\* C4: whenever a batch that started with a non-empty list of tracks (its
\* loop has taken a first track) ends, by completion or by a transport call
\* that raised, the user's entry in playlist_cache is absent.
C4_SessionAbsentAtEnd ==
    \A w \in Threads :
        (Batch(w) /\ th[w].i >= 1 /\ th[w].pc = "return")
            => th[w].user_id \notin DOMAIN playlist_cache

\* C5: when the processing of a track ends, in the single-track handler or
\* in the batch loop, the asset file created for it and its .lrc file no
\* longer exist.
C5_AssetRemoved ==
    \A w \in Threads :
        (\/ th[w].handler = "web_app_data" /\ th[w].pc \in {"loop", "return"}
         \/ th[w].handler = "youtube_url" /\ th[w].pc = "return")
            => \A path \in th[w].asset : path \notin DOMAIN files

C7_SessionPageSize ==
    \A u \in DOMAIN playlist_cache :
        LET s == playlist_cache[u]
            fits(n) == url_len(s.entries_list, WEBAPP_URL, n) <= DefaultMaxUrlLen
        IN  /\ s.entries_list # <<>>
            /\ s.page_size \in 1..Len(s.entries_list)
            /\ fits(s.page_size)
            /\ s.page_size < Len(s.entries_list) => ~fits(s.page_size + 1)
            /\ s.entries_list = get_playlist_info(s.url).entries

\* a resolution whose fit is 0 returned, and the session kept is one whose
\* page is shorter than its list
C7_Witness ==
    \E w \in Threads :
        /\ th[w].pc = "return"
        /\ th[w].result = "fit0"
        /\ th[w].user_id \in DOMAIN playlist_cache
        /\ LET s == playlist_cache[th[w].user_id]
           IN  s.page_size < Len(s.entries_list)

\* C8: for every session, the ids that are keys of 'entries' are the ids of
\* the elements of 'entries_list', also when an id occurs more than once.
C8_SameIds ==
    \A u \in DOMAIN playlist_cache :
        LET s == playlist_cache[u]
        IN  DOMAIN s.entries = { s.entries_list[k].id : k \in 1..Len(s.entries_list) }

\* a session whose list holds an id twice
C8_Witness ==
    \E u \in DOMAIN playlist_cache :
        LET s == playlist_cache[u]
        IN  \E j, k \in 1..Len(s.entries_list) :
               j < k /\ s.entries_list[j].id = s.entries_list[k].id

(***************************************************************************)
(* Properties of handle_playlist_url                                       *)
(***************************************************************************)
PlaylistReturn(w) == th[w].handler = "playlist_url" /\ th[w].pc = "return"

\* C13: for a resolved non-empty playlist the page fitter returns 0 exactly
\* when the URL of the first entry alone is longer than max_url_len; a
\* handle_playlist_url that resolved the playlist and whose calls to Telegram
\* went through ends with the error message ("fit0") in exactly that case,
\* and with the selection keyboard ("shown") otherwise.
C13_FitZeroReported ==
    \A w \in Threads :
        PlaylistReturn(w) =>
            LET es   == get_playlist_info(th[w].url).entries
                over == url_len(es, WEBAPP_URL, 1) > DefaultMaxUrlLen
                zero == calc_max_tracks_for_url(es, WEBAPP_URL, DefaultMaxUrlLen) = 0
            IN  (th[w].url \in PlaylistUrls /\ es # <<>>) =>
                  /\ zero <=> over
                  /\ over <=> th[w].result = "fit0"
                  /\ ~over <=> th[w].result = "shown"

\* the playlist whose first entry alone does not fit was answered with the
\* error message
C13_Witness ==
    \E w \in Threads :
        /\ PlaylistReturn(w)
        /\ th[w].result = "fit0"
        /\ url_len(get_playlist_info(th[w].url).entries, WEBAPP_URL, 1) > DefaultMaxUrlLen

\* C15: a successful resolution by a user who already has a session
\* overwrites it: every session holds the entries (list and dict), title,
\* total, page size and url of one playlist, the one resolved last, and no id
\* of an earlier playlist is a key of 'entries'.
C15_SessionOverwritten ==
    \A u \in DOMAIN playlist_cache :
        LET s    == playlist_cache[u]
            info == get_playlist_info(s.url)
        IN  /\ s.entries_list = info.entries
            /\ s.title = info.title
            /\ s.total = info.count
            /\ s.page_size = Resolved[s.url].page_size
            /\ DOMAIN s.entries = { info.entries[k].id : k \in 1..Len(info.entries) }
            /\ \A id \in DOMAIN s.entries :
                  \E k \in 1..Len(info.entries) :
                     info.entries[k].id = id /\ info.entries[k] = s.entries[id]

\* a batch is still delivering tracks of an earlier playlist, one of them
\* absent from the playlist the user's session now holds
C15_Witness ==
    \E w \in Threads :
        /\ Batch(w)
        /\ th[w].pc = "loop"
        /\ th[w].user_id \in DOMAIN playlist_cache
        /\ LET s == playlist_cache[th[w].user_id]
           IN  /\ s.url = "list=PLmix"
               /\ \E k \in 1..Len(th[w].tracks_to_download) :
                     th[w].tracks_to_download[k].id \notin DOMAIN s.entries

(***************************************************************************)
(* Properties of events that find no session                               *)
(***************************************************************************)
\* thread w takes a selection or a navigation event of an allowed user who
\* has no session
TakesWithoutSession(w) ==
    /\ th[w].pc = "idle"
    /\ th'[w].pc # "idle"
    /\ th'[w].handler \in {"web_app_data", "playlist_navigation"}
    /\ is_allowed(th'[w].user_id)
    /\ th'[w].user_id \notin DOMAIN playlist_cache

\* the event is answered with the "send the link again" message (or the call
\* that sends it raises), no download starts, no page is rendered and
\* playlist_cache stays as it is
AnsweredExpired(w) ==
    /\ th'[w].pc = "return"
    /\ th'[w].result \in {"expired", "raised"}
    /\ th'[w].tracks_to_download = <<>>
    /\ th'[w].page = <<>>
    /\ playlist_cache' = playlist_cache
    /\ files' = files

\* C16 (as the code has it): a page-navigation event, or a well-formed
\* selection of at least one id, from a user who has no session ends with
\* the "send the link again" message, starts no download, renders no page
\* and leaves playlist_cache unchanged.
C16_NoSessionExpired ==
    [][\A w \in Threads :
          (/\ TakesWithoutSession(w)
           /\ th'[w].handler = "web_app_data" => th'[w].selected # <<>>)
          => AnsweredExpired(w)]_vars

\* C16 (as stated): every well-formed selection and every page-navigation
\* event from a user who has no session ends that way.
C16_AsStated ==
    [][\A w \in Threads :
          (TakesWithoutSession(w) /\ th'[w].result # "bad_json") => AnsweredExpired(w)]_vars

\* a selection of one id by a user without a session was answered "expired"
C16_Witness ==
    \E w \in Threads :
        /\ th[w].handler = "web_app_data"
        /\ th[w].pc = "return"
        /\ th[w].result = "expired"
        /\ th[w].selected # <<>>
        /\ th[w].user_id \notin DOMAIN playlist_cache

\* the tracks were looked up in a session of the playlist url
FromSession(tracks, url) ==
    /\ tracks # <<>>
    /\ \A k \in 1..Len(tracks) :
          /\ tracks[k].id \in DOMAIN Resolved[url].session.entries
          /\ tracks[k] = Resolved[url].session.entries[tracks[k].id]

\* C17: a selection made from a session that another playlist resolution of
\* the same user has since replaced starts no download.  The user had a
\* session of url (a batch looked up in it is still running), the session is
\* now one of another playlist, and the selection names ids of url only.
C17_SupersededExpired ==
    [][\A w \in Threads, v \in Threads, url \in DOMAIN NavPages :
          (/\ v # w
           /\ th[v].handler = "web_app_data"
           /\ FromSession(th[v].tracks_to_download, url)
           /\ th[w].pc = "idle"
           /\ th'[w].handler = "web_app_data"
           /\ th'[w].user_id = th[v].user_id
           /\ th'[w].selected # <<>>
           /\ \A k \in 1..Len(th'[w].selected) :
                 th'[w].selected[k] \in DOMAIN Resolved[url].session.entries
           /\ th'[w].user_id \in DOMAIN playlist_cache
           /\ playlist_cache[th'[w].user_id].url # url)
          => th'[w].tracks_to_download = <<>>]_vars

(***************************************************************************)
(* Properties of the downloads directory                                   *)
(***************************************************************************)
\* thread w has downloaded its asset and has not yet delivered or dropped it
InFlight(w) == th[w].handler \in {"web_app_data", "youtube_url"} /\ th[w].pc = "size"

\* C19: two downloads in flight at the same time never use the same asset
\* path: the files one request owns are not files of another.
C19_DisjointAssets ==
    \A w, v \in Threads :
        (w # v /\ InFlight(w) /\ InFlight(v)) => th[w].asset \cap th[v].asset = {}

(***************************************************************************)
(* The session at the end of a batch                                       *)
(***************************************************************************)
\* some track of the batch is no entry of the session: the selection was
\* looked up in a session that a later resolution has replaced
TakenFromEarlier(tracks, cached) ==
    \E k \in 1..Len(tracks) :
        \/ tracks[k].id \notin DOMAIN cached.entries
        \/ cached.entries[tracks[k].id] # tracks[k]

\* C24: when the user has resolved another playlist while a batch was
\* running, the completion of the batch leaves the session of that newer
\* playlist in playlist_cache.
C24_NewerSessionKept ==
    [][\A w \in Threads :
          (/\ Batch(w)
           /\ th[w].pc = "loop"
           /\ th'[w].pc = "return"
           /\ th'[w].result = "completed"
           /\ th[w].user_id \in DOMAIN playlist_cache
           /\ TakenFromEarlier(th[w].tracks_to_download, playlist_cache[th[w].user_id]))
          => /\ th[w].user_id \in DOMAIN playlist_cache'
             /\ playlist_cache'[th[w].user_id] = playlist_cache[th[w].user_id]]_vars

(***************************************************************************)
(* SpecAccess: the handlers taken one at a time, for every value           *)
(* ALLOWED_USERS can have over the two users                               *)
(***************************************************************************)
AccessInit ==
    /\ fn_pc = "off"
    /\ fn_args \in [ALLOWED_USERS : SUBSET Users]
    /\ fn_ret = Off
    /\ dl = dlOff
    /\ playlist_cache = <<>>
    /\ files = <<>>
    /\ th = [w \in {1} |-> IdleThread]

Commands(w) ==
    \E u \in Users, command \in {"command", "other"}, f \in {"none", "reply"} :
        handle_command(w, u, command, f)

AccessNext == \E w \in Threads : Step(w) \/ Commands(w) \/ Return(w)

SpecAccess == AccessInit /\ [][AccessNext]_vars

\* the thread as a handler leaves it that returned at its first test
Refused(t) ==
    [IdleThread EXCEPT !.handler = t.handler, !.user_id = t.user_id,
                       !.pc = "return", !.result = "not_allowed"]

\* C25: with a non-empty ALLOWED_USERS, an update of any kind (command,
\* other text, link, playlist link, navigation click, selection) from a
\* user who is not in the set makes the handler return at once: no reply,
\* no track looked up, no file, no page, and playlist_cache and the
\* downloads directory as they were.  Every other update, and so every
\* update when ALLOWED_USERS is empty, passes the test.
C25_OnlyAllowedUsers ==
    [][\A w \in Threads :
          (th[w].pc = "idle" /\ th'[w].pc # "idle") =>
              IF ALLOWED_USERS # {} /\ th'[w].user_id \notin ALLOWED_USERS
              THEN /\ th'[w] = Refused(th'[w])
                   /\ playlist_cache' = playlist_cache
                   /\ files' = files
              ELSE th'[w].result # "not_allowed"]_vars

C25_Witness ==
    /\ ALLOWED_USERS = {1}
    /\ 1 \in DOMAIN playlist_cache
    /\ files # <<>>
    /\ \E w \in Threads :
          /\ th[w].handler = "web_app_data"
          /\ th[w].user_id = 2
          /\ th[w].result = "not_allowed"

=============================================================================
